---- MODULE Spec2Model ----
(***************************************************************************)
(* snake-patrol-bot (main.py): the duty-roster extraction (Planner), the   *)
(* Stormglass forecast cache (Synoptic) and the driver (main) that         *)
(* composes them.                                                          *)
(*                                                                         *)
(* A spreadsheet cell (a Python str) is a sequence of one-character        *)
(* strings, so that str.isdigit, float, int and the comparison with '0'    *)
(* are computed from the characters.  Times are epoch seconds.             *)
(***************************************************************************)
EXTENDS Integers, Sequences, FiniteSets, TLC

VARIABLES
    clock,              \* the wall clock (datetime.now), epoch seconds
    spreadsheet_values, \* Planner.spreadsheet_values of the extraction under study
    extracted,          \* what form_schedule returned for it (NotCalled before)
    cache,              \* the file stormglass_cache.json: existence, content, mtime
    pc,                 \* where each process (a run of main) stands
    schedule,           \* main: schedule
    time_start,         \* main: time_start
    time_end,           \* main: time_end
    current_time,       \* Synoptic.__init__: current_time
    weather_response,   \* Synoptic.__init__: weather_response
    stormglass_data,    \* Synoptic.stormglass_data
    weather,            \* main: weather
    raised,             \* the exception the run raised, "none" if none
    delivered,          \* the notification handed to Notifier.notify_people
    before,             \* history: the cache file when Synoptic() was entered
    requested,          \* history: requests.get calls of the run
    position,           \* Synoptic.__init__: the position of the file open for writing
    previous,           \* history: the forecast call of the run before this one
    fetches             \* history: when requests.get was last called, and when
                        \* it last answered 200 (-1: never)

----------------------------------------------------------------------------
(* Bounds of the model *)

\* rows plus cells the sheet's editors may add below the header rows
MaxSize == 6
\* hours the wall clock advances over
MaxHours == 5
\* pieces the cache file's text is flushed in
NChunks == 2

----------------------------------------------------------------------------
(* Program constants *)

DAYS_OFFSET == 1
\* TIMEZONE = Europe/Kyiv: local time is UTC + 2 h (winter time; the two
\* daylight-saving transitions of a year are not modelled)
UtcOffset == 7200
DaySeconds == 86400
HourSeconds == 3600

----------------------------------------------------------------------------
(* Python's str operations on a cell *)

DecimalChars == {"0", "1", "2", "3", "4", "5", "6", "7", "8", "9"}
\* a character such as SUPERSCRIPT TWO: str.isdigit accepts it, float and
\* int do not
SuperscriptChars == {"sup2"}

isdigit(s) ==
    /\ Len(s) > 0
    /\ \A i \in 1..Len(s) : s[i] \in DecimalChars \cup SuperscriptChars

\* float(s) and int(s) raise ValueError unless s is a decimal literal
Convertible(s) ==
    /\ Len(s) > 0
    /\ \A i \in 1..Len(s) : s[i] \in DecimalChars

DigitValue(c) ==
    CASE c = "0" -> 0 [] c = "1" -> 1 [] c = "2" -> 2 [] c = "3" -> 3
      [] c = "4" -> 4 [] c = "5" -> 5 [] c = "6" -> 6 [] c = "7" -> 7
      [] c = "8" -> 8 [] c = "9" -> 9

RECURSIVE int(_)
int(s) ==
    IF Len(s) = 0 THEN 0
    ELSE 10 * int(SubSeq(s, 1, Len(s) - 1)) + DigitValue(s[Len(s)])

\* float(s) of a digit string: exact below 2^53, which covers epoch seconds
float(s) == int(s)

----------------------------------------------------------------------------
(* Planner *)

\* what a call gives back: the value it returns, or the exception it raises
Returned(v) == [fault |-> "none", value |-> v]
Raised(e)   == [fault |-> e, value |-> <<>>]
ValueError  == Raised("ValueError")
IndexError  == Raised("IndexError")
NotCalled   == Raised("not called")
IsFault(r)  == r.fault # "none"

\* datetime.now(tz).date() as a day number, and midnight of a local day
LocalDate(now) == (now + UtcOffset) \div DaySeconds
LocalMidnight(day) == day * DaySeconds - UtcOffset

timestamp_range_start(now, days) == LocalMidnight(LocalDate(now) + days)
timestamp_range_end(now, days) == LocalMidnight(LocalDate(now) + days + 1)

\* the row makes float(row[0]) raise inside find_shifts
RowRaises(row) ==
    /\ Len(row) > 0
    /\ isdigit(row[1])
    /\ ~Convertible(row[1])

InRange_upto(lo, x, hi) == lo <= x /\ x <= hi
\* timestamp_range_start <= float(row[0]) < timestamp_range_end
InRange(lo, x, hi) == lo <= x /\ x < hi

RowSelected(row, now, days) ==
    /\ Len(row) > 0
    /\ isdigit(row[1])
    /\ InRange(timestamp_range_start(now, days), float(row[1]),
               timestamp_range_end(now, days))

find_shifts(values, now, days) ==
    IF \E r \in 1..Len(values) : RowRaises(values[r])
    THEN ValueError
    ELSE Returned(SelectSeq(values, LAMBDA row : RowSelected(row, now, days)))

\* range(2, len(shift) - 1), as 0-based column numbers
Columns_with_last(shift) == [k \in 1..(Len(shift) - 2) |-> k + 1]
Columns(shift) == [k \in 1..(Len(shift) - 3) |-> k + 1]

\* the 0-based columns of the shift row whose cell is '0'
assign_people(shift) ==
    SelectSeq(Columns(shift), LAMBDA i : shift[i + 1] = <<"0">>)

\* spreadsheet_values[0][column] and spreadsheet_values[1][column] exist
PersonFound(values, column) ==
    /\ Len(values) >= 2
    /\ column + 1 <= Len(values[1])
    /\ column + 1 <= Len(values[2])

find_person(values, column) ==
    [name |-> values[1][column + 1],
     telegram_handler |-> values[2][column + 1]]

ShiftEnd_onehour(start) == start + 3600
ShiftEnd(start) == start + 3600 * 2

form_schedule_skipping(values, now, days) ==
    LET found == find_shifts(values, now, days)
        shifts == found.value
    IN
    IF IsFault(found) THEN found
    ELSE Returned(
           [k \in 1..Len(shifts) |->
              LET people == SelectSeq(assign_people(shifts[k]),
                                      LAMBDA c : PersonFound(values, c))
              IN
              [time_start |-> int(shifts[k][1]),
               time_end |-> ShiftEnd(int(shifts[k][1])),
               people |-> [j \in 1..Len(people) |->
                              find_person(values, people[j])]]])

form_schedule(values, now, days) ==
    LET found == find_shifts(values, now, days)
        shifts == found.value
    IN
    IF IsFault(found) THEN found
    ELSE IF \E k \in 1..Len(shifts) :
              \E j \in 1..Len(assign_people(shifts[k])) :
                 ~PersonFound(values, assign_people(shifts[k])[j])
    THEN IndexError
    ELSE Returned(
           [k \in 1..Len(shifts) |->
              LET people == assign_people(shifts[k]) IN
              [time_start |-> int(shifts[k][1]),
               time_end |-> ShiftEnd(int(shifts[k][1])),
               people |-> [j \in 1..Len(people) |->
                              find_person(values, people[j])]]])

----------------------------------------------------------------------------
(* The spreadsheet the Planner reads.  Rows 0 and 1 are the header rows;   *)
(* the sheet's editors add rows and cells below them.                      *)

\* column 0 of a data row: blank, a label, a superscript, and the epoch
\* seconds around tomorrow's window [79200, 165600) as seen from day 0
Col0Cells ==
    { <<>>, <<"x">>, <<"sup2">>,
      <<"7", "9", "1", "9", "9">>, <<"7", "9", "2", "0", "0">>,
      <<"1", "6", "5", "5", "9", "9">>, <<"1", "6", "5", "6", "0", "0">> }

\* the cells of the other columns
MarkCells == { <<"0">>, <<"0", "0">>, <<>>, <<"1">> }

HeaderNames   == << <<"n">>, <<>>, <<"A">>, <<"B">>, <<>> >>
HeaderHandles == << <<"h">>, <<>>, <<"a">>, <<"b">>, <<>> >>

\* no rows at all, full header rows, header rows shorter than the data rows
HeaderSheets ==
    { <<>>,
      <<HeaderNames, HeaderHandles>>,
      <<SubSeq(HeaderNames, 1, 3), SubSeq(HeaderHandles, 1, 3)>> }

RECURSIVE SheetSize(_)
SheetSize(values) ==
    IF Len(values) = 0 THEN 0
    ELSE 1 + Len(values[Len(values)])
           + SheetSize(SubSeq(values, 1, Len(values) - 1))

HeaderSize(values) ==
    IF \E h \in HeaderSheets : h # <<>> /\ Len(values) >= 2
                                 /\ SubSeq(values, 1, 2) = h
    THEN SheetSize(SubSeq(values, 1, 2)) ELSE 0

----------------------------------------------------------------------------
(* Synoptic: the forecast cache *)

Procs == {1, 2}

\* the payload asks for 'start' = now to 'end' = now + 1 day, hourly
PayloadHours == 24

\* what the file holds: a sequence of pieces, each a piece of the text of
\* some response body or, where a write landed beyond the end of the file,
\* the zero bytes the file system filled in
EmptyText == <<>>
Hole == [kind |-> "hole", start |-> 0]
Absent == [exists |-> FALSE, content |-> EmptyText, mtime |-> 0]

\* the response bodies of a status-200 answer to a request made at `now`:
\* a payload with 'hours', a JSON object without 'hours', text that is not
\* JSON, bytes that are not UTF-8
OkKinds == {"hours", "nohours", "notjson", "badutf8"}
Body(kind, now) == [kind |-> kind, start |-> now]
Response(status, body) == [status_code |-> status, content |-> body]
NoResponse == Response(0, Body("none", 0))

\* requests.get(...) with params start = current_time: the answers that
\* return (the call may also raise)
Answers(now) ==
    {Response(200, Body(k, now)) : k \in OkKinds}
        \cup {Response(500, Body("error", now))}

Succeeded_any(response) == TRUE
\* weather_response.status_code == 200
Succeeded(response) == response.status_code = 200

WithinThreshold_inclusive(age) == age <= 3 * HourSeconds
WithinThreshold_never(age) == FALSE
\* current_time - modified_time < datetime.timedelta(hours=3)
WithinThreshold(age) == age < 3 * HourSeconds

\* update_cache after lines 108-113
update_cache(file, now) ==
    ~(file.exists /\ WithinThreshold(now - file.mtime))

\* weather_response.content.decode('utf-8')
Decodable(body) == body.kind # "badutf8"
decode(body) == [i \in 1..NChunks |-> [kind |-> body.kind, start |-> body.start]]

\* one write() of the open file: `piece` lands at the writer's position `at`
pwrite(content, at, piece) ==
    LET length == IF Len(content) > at THEN Len(content) ELSE at + 1
    IN [i \in 1..length |->
          IF i = at + 1 THEN piece
          ELSE IF i <= Len(content) THEN content[i] ELSE Hole]

\* the file holds the whole of one response body's text
OneText(content) ==
    /\ Len(content) = NChunks
    /\ \A i \in 1..NChunks : content[i] = content[1]

json_load_swallow(content) ==
    IF OneText(content) /\ content[1].kind = "hours"
    THEN Returned(
           [has_hours |-> TRUE,
            hours |-> [i \in 1..PayloadHours |->
                         [time |-> content[1].start + (i - 1) * HourSeconds]]])
    ELSE Returned([has_hours |-> FALSE, hours |-> <<>>])

\* json.load of the file's content
json_load(content) ==
    IF OneText(content) /\ content[1].kind \in {"hours", "nohours", "error"}
    THEN Returned(
           [has_hours |-> content[1].kind = "hours",
            hours |-> IF content[1].kind = "hours"
                      THEN [i \in 1..PayloadHours |->
                              [time |-> content[1].start + (i - 1) * HourSeconds]]
                      ELSE <<>>])
    ELSE Raised("JSONDecodeError")

NoData == [has_hours |-> FALSE, hours |-> <<>>]

\* forecast_piece_time = time_start + hour_offset * 3600
forecast_piece_time(start, hour_offset) == start + hour_offset * 3600

forecast_for_time_range(data, start, end) ==
    IF ~data.has_hours THEN <<>>
    ELSE LET offsets == [i \in 1..Len(data.hours) |-> i - 1]
             kept == SelectSeq(offsets,
                        LAMBDA o : /\ start <= forecast_piece_time(start, o)
                                   /\ forecast_piece_time(start, o) < end)
         IN [j \in 1..Len(kept) |->
               [time |-> data.hours[kept[j] + 1].time,
                time_start |-> forecast_piece_time(start, kept[j]),
                time_end |-> forecast_piece_time(start, kept[j]) + 3600]]

forecast_call_unguarded(data, start, end) ==
    IF data.has_hours
    THEN Returned(forecast_for_time_range(data, start, end))
    ELSE Raised("KeyError")

\* synoptic.forecast_for_time_range(...) as main calls it: its value, or the
\* exception it raises
forecast_call(data, start, end) ==
    Returned(forecast_for_time_range(data, start, end))

----------------------------------------------------------------------------
(* main: the driver *)

None == [fault |-> "None", value |-> <<>>]

ShiftRow(stamp) == <<stamp, <<"s">>, <<"0">>, <<"1">>, <<>> >>
FirstStamp  == <<"7", "9", "2", "0", "0">>
SecondStamp == <<"8", "6", "4", "0", "0">>
LateStamp   == <<"1", "5", "8", "4", "0", "0">>

\* the sheets a run may find: one shift, two shifts, a shift late in the
\* day, none, and a shift that names a person column the header rows do not
\* have
DriverSheets ==
    { <<HeaderNames, HeaderHandles, ShiftRow(FirstStamp)>>,
      <<HeaderNames, HeaderHandles, ShiftRow(LateStamp)>>,
      <<HeaderNames, HeaderHandles, ShiftRow(FirstStamp), ShiftRow(SecondStamp)>>,
      <<HeaderNames, HeaderHandles>>,
      <<SubSeq(HeaderNames, 1, 2), SubSeq(HeaderHandles, 1, 2),
        ShiftRow(FirstStamp)>> }

\* ValueError: min() arg is an empty sequence (line 175)
EmptySequenceError == "ValueError: min() arg is an empty sequence"

Min(set) == CHOOSE x \in set : \A y \in set : x <= y
Max(set) == CHOOSE x \in set : \A y \in set : x >= y

Caught_requests_only(exception) == exception = "ConnectionError"
\* except Exception as e
Caught(exception) == TRUE

\* the notification renderer.render(...) forms
render(start, sched, forecast) ==
    [start_date |-> start,
     schedule |-> sched,
     secondary_group |-> (start \div DaySeconds) % 2,
     weather |-> forecast]

NotRendered == [sent |-> FALSE, text |-> render(0, <<>>, None)]

NoPrevious ==
    [valid |-> FALSE, time |-> 0, time_start |-> 0, time_end |-> 0,
     requested |-> 0, status_code |-> 0, stale |-> FALSE, weather |-> None]

plannerVars == <<spreadsheet_values, extracted>>
localVars == <<schedule, time_start, time_end, current_time, weather_response,
               stormglass_data, before, requested, position>>

\* an exception leaves Synoptic(): main catches it (lines 189-190) or dies
Raise(p, exception) ==
    /\ raised' = [raised EXCEPT ![p] = exception]
    /\ IF Caught(exception)
       THEN /\ pc' = [pc EXCEPT ![p] = "render"]
            /\ weather' = [weather EXCEPT ![p] = None]
       ELSE /\ pc' = [pc EXCEPT ![p] = "aborted"]
            /\ UNCHANGED weather

\* main, lines 170-176: the schedule and the forecast window
Begin(p) ==
    /\ pc[p] = "idle"
    /\ \E values \in DriverSheets :
         LET formed == form_schedule(values, clock, DAYS_OFFSET) IN
         IF IsFault(formed) \/ formed.value = <<>>
         THEN /\ pc' = [pc EXCEPT ![p] = "aborted"]
              /\ raised' = [raised EXCEPT
                              ![p] = IF IsFault(formed) THEN formed.fault
                                     ELSE EmptySequenceError]
              /\ UNCHANGED <<schedule, time_start, time_end>>
         ELSE /\ pc' = [pc EXCEPT ![p] = "synoptic"]
              /\ schedule' = [schedule EXCEPT ![p] = formed.value]
              /\ time_start' = [time_start EXCEPT ![p] =
                    Min({formed.value[k].time_start : k \in 1..Len(formed.value)})]
              /\ time_end' = [time_end EXCEPT ![p] =
                    Max({formed.value[k].time_end : k \in 1..Len(formed.value)})]
              /\ UNCHANGED raised
    /\ UNCHANGED <<clock, plannerVars, cache, current_time, weather_response,
                   stormglass_data, weather, delivered, before, requested,
                   position, previous, fetches>>

\* a run that starts when no other run is under way
StartRun(p) ==
    /\ \A q \in Procs : pc[q] = "idle"
    /\ Begin(p)

\* Synoptic.__init__, lines 107-113
SynCheck(p) ==
    /\ pc[p] = "synoptic"
    /\ current_time' = [current_time EXCEPT ![p] = clock]
    /\ before' = [before EXCEPT ![p] = cache]
    /\ pc' = [pc EXCEPT ![p] = IF update_cache(cache, clock)
                               THEN "credentials" ELSE "read"]
    /\ UNCHANGED <<clock, plannerVars, cache, schedule, time_start, time_end,
                   weather_response, stormglass_data, weather, raised,
                   delivered, requested, position, previous, fetches>>

\* lines 115-116: the credentials file is read, or open / json.load raises
SynCredentials(p) ==
    /\ pc[p] = "credentials"
    /\ \E readable \in BOOLEAN :
         IF readable
         THEN /\ pc' = [pc EXCEPT ![p] = "fetch"]
              /\ UNCHANGED <<weather, raised>>
         ELSE Raise(p, "CredentialsError")
    /\ UNCHANGED <<clock, plannerVars, cache, localVars, delivered, previous, fetches>>

\* lines 117-131: requests.get returns an answer or raises
SynFetch(p) ==
    /\ pc[p] = "fetch"
    /\ requested' = [requested EXCEPT ![p] = @ + 1]
    /\ \/ /\ Raise(p, "ConnectionError")
          /\ fetches' = [fetches EXCEPT !.last = clock]
          /\ UNCHANGED weather_response
       \/ \E answer \in Answers(current_time[p]) :
            /\ weather_response' = [weather_response EXCEPT ![p] = answer]
            /\ fetches' = [last |-> clock,
                           last_ok |-> IF answer.status_code = 200 THEN clock
                                       ELSE fetches.last_ok]
            /\ pc' = [pc EXCEPT ![p] = IF Succeeded(answer) THEN "open" ELSE "read"]
            /\ UNCHANGED <<weather, raised>>
    /\ UNCHANGED <<clock, plannerVars, cache, schedule, time_start, time_end,
                   current_time, stormglass_data, before, position, delivered,
                   previous>>

\* line 132: open(stormglass_cache_file, 'w') creates or truncates the file
SynOpen(p) ==
    /\ pc[p] = "open"
    /\ cache' = [exists |-> TRUE, content |-> EmptyText, mtime |-> clock]
    /\ position' = [position EXCEPT ![p] = 0]
    /\ pc' = [pc EXCEPT ![p] = "write"]
    /\ UNCHANGED <<clock, plannerVars, schedule, time_start, time_end,
                   current_time, weather_response, stormglass_data, before,
                   requested, weather, raised, delivered, previous, fetches>>

\* line 133: the body is decoded; a body that is not UTF-8 raises and the
\* with-block closes the truncated file
SynWrite(p) ==
    /\ pc[p] = "write"
    /\ IF Decodable(weather_response[p].content)
       THEN /\ pc' = [pc EXCEPT ![p] = "flush"]
            /\ UNCHANGED <<weather, raised>>
       ELSE Raise(p, "UnicodeDecodeError")
    /\ UNCHANGED <<clock, plannerVars, cache, localVars, delivered, previous, fetches>>

\* line 133: the text reaches the file piece by piece; the with-block
\* closes the file after the last one
SynFlush(p) ==
    /\ pc[p] = "flush"
    /\ LET text == decode(weather_response[p].content)
           n == position[p] + 1
       IN /\ cache' = [exists |-> TRUE,
                       content |-> pwrite(cache.content, position[p], text[n]),
                       mtime |-> clock]
          /\ position' = [position EXCEPT ![p] = n]
          /\ pc' = [pc EXCEPT ![p] = IF n = NChunks THEN "read" ELSE "flush"]
    /\ UNCHANGED <<clock, plannerVars, schedule, time_start, time_end,
                   current_time, weather_response, stormglass_data, before,
                   requested, weather, raised, delivered, previous, fetches>>

\* the process is killed while the cache file is open for writing
Kill(p) ==
    /\ pc[p] \in {"write", "flush"}
    /\ pc' = [pc EXCEPT ![p] = "killed"]
    /\ UNCHANGED <<clock, plannerVars, cache, localVars, weather, raised,
                   delivered, previous, fetches>>

\* lines 134-135: open(stormglass_cache_file, 'r') and json.load
SynRead(p) ==
    /\ pc[p] = "read"
    /\ IF ~cache.exists
       THEN /\ Raise(p, "FileNotFoundError")
            /\ UNCHANGED stormglass_data
       ELSE LET loaded == json_load(cache.content) IN
            IF IsFault(loaded)
            THEN /\ Raise(p, loaded.fault)
                 /\ UNCHANGED stormglass_data
            ELSE /\ stormglass_data' = [stormglass_data EXCEPT ![p] = loaded.value]
                 /\ pc' = [pc EXCEPT ![p] = "forecast"]
                 /\ UNCHANGED <<weather, raised>>
    /\ UNCHANGED <<clock, plannerVars, cache, schedule, time_start, time_end,
                   current_time, weather_response, before, requested,
                   position, delivered, previous, fetches>>

\* main, lines 185-188
Forecast(p) ==
    /\ pc[p] = "forecast"
    /\ LET result == forecast_call(stormglass_data[p],
                                   time_start[p], time_end[p])
       IN IF IsFault(result)
          THEN Raise(p, result.fault)
          ELSE /\ weather' = [weather EXCEPT ![p] = result]
               /\ pc' = [pc EXCEPT ![p] = "render"]
               /\ UNCHANGED raised
    /\ UNCHANGED <<clock, plannerVars, cache, localVars, delivered, previous, fetches>>

\* main, lines 193-203
Render(p) ==
    /\ pc[p] = "render"
    /\ delivered' = [delivered EXCEPT ![p] =
          [sent |-> FALSE,
           text |-> render(time_start[p], schedule[p], weather[p])]]
    /\ pc' = [pc EXCEPT ![p] = "notify"]
    /\ UNCHANGED <<clock, plannerVars, cache, localVars, weather, raised,
                   previous, fetches>>

\* main, lines 206-207
Notify(p) ==
    /\ pc[p] = "notify"
    /\ delivered' = [delivered EXCEPT ![p].sent = TRUE]
    /\ pc' = [pc EXCEPT ![p] = "done"]
    /\ UNCHANGED <<clock, plannerVars, cache, localVars, weather, raised,
                   previous, fetches>>

\* the process ends; the next run starts from fresh locals
Exit(p) ==
    /\ pc[p] \in {"done", "aborted", "killed"}
    /\ previous' =
         IF pc[p] = "done"
         THEN [valid |-> TRUE, time |-> current_time[p],
               time_start |-> time_start[p], time_end |-> time_end[p],
               requested |-> requested[p],
               status_code |-> weather_response[p].status_code,
               stale |-> update_cache(before[p], current_time[p]),
               weather |-> weather[p]]
         ELSE IF pc[p] = "killed" THEN NoPrevious
         ELSE previous
    /\ pc' = [pc EXCEPT ![p] = "idle"]
    /\ schedule' = [schedule EXCEPT ![p] = <<>>]
    /\ time_start' = [time_start EXCEPT ![p] = 0]
    /\ time_end' = [time_end EXCEPT ![p] = 0]
    /\ current_time' = [current_time EXCEPT ![p] = 0]
    /\ weather_response' = [weather_response EXCEPT ![p] = NoResponse]
    /\ stormglass_data' = [stormglass_data EXCEPT ![p] = NoData]
    /\ weather' = [weather EXCEPT ![p] = None]
    /\ raised' = [raised EXCEPT ![p] = "none"]
    /\ delivered' = [delivered EXCEPT ![p] = NotRendered]
    /\ before' = [before EXCEPT ![p] = Absent]
    /\ requested' = [requested EXCEPT ![p] = 0]
    /\ position' = [position EXCEPT ![p] = 0]
    /\ UNCHANGED <<clock, plannerVars, cache, fetches>>

\* an hour passes between two runs
Tick ==
    /\ \A q \in Procs : pc[q] = "idle"
    /\ clock < MaxHours * HourSeconds
    /\ clock' = clock + HourSeconds
    /\ UNCHANGED <<plannerVars, cache, pc, localVars, weather, raised,
                   delivered, previous, fetches>>

----------------------------------------------------------------------------
(* The spreadsheet's editors and the extraction call *)

driverVars == <<cache, pc, localVars, weather, raised, delivered, previous, fetches>>

Editable == extracted = NotCalled
              /\ SheetSize(spreadsheet_values) - HeaderSize(spreadsheet_values) < MaxSize

AppendRow ==
    /\ Editable
    /\ spreadsheet_values' = Append(spreadsheet_values, <<>>)
    /\ UNCHANGED <<clock, extracted, driverVars>>

AppendCell ==
    /\ Editable
    /\ Len(spreadsheet_values) > 0
    /\ HeaderSize(spreadsheet_values) = 0 \/ Len(spreadsheet_values) > 2
    /\ LET n == Len(spreadsheet_values)
           row == spreadsheet_values[n]
       IN \E cell \in (IF Len(row) = 0 THEN Col0Cells ELSE MarkCells) :
             spreadsheet_values' =
                 [spreadsheet_values EXCEPT ![n] = Append(row, cell)]
    /\ UNCHANGED <<clock, extracted, driverVars>>

\* planner.form_schedule(tz=TIMEZONE, days=DAYS_OFFSET)
FormSchedule ==
    /\ extracted = NotCalled
    /\ extracted' = form_schedule(spreadsheet_values, clock, DAYS_OFFSET)
    /\ UNCHANGED <<clock, spreadsheet_values, driverVars>>

----------------------------------------------------------------------------
(* Specifications *)

vars == <<clock, plannerVars, driverVars>>

InitDriver ==
    /\ cache = Absent
    /\ pc = [p \in Procs |-> "idle"]
    /\ schedule = [p \in Procs |-> <<>>]
    /\ time_start = [p \in Procs |-> 0]
    /\ time_end = [p \in Procs |-> 0]
    /\ current_time = [p \in Procs |-> 0]
    /\ weather_response = [p \in Procs |-> NoResponse]
    /\ stormglass_data = [p \in Procs |-> NoData]
    /\ weather = [p \in Procs |-> None]
    /\ raised = [p \in Procs |-> "none"]
    /\ delivered = [p \in Procs |-> NotRendered]
    /\ before = [p \in Procs |-> Absent]
    /\ requested = [p \in Procs |-> 0]
    /\ position = [p \in Procs |-> 0]
    /\ previous = NoPrevious
    /\ fetches = [last |-> -1, last_ok |-> -1]

\* the extraction over every sheet the editors can build
InitPlanner ==
    /\ clock = 0
    /\ spreadsheet_values \in HeaderSheets
    /\ extracted = NotCalled
    /\ InitDriver

NextPlanner == AppendRow \/ AppendCell \/ FormSchedule

SpecPlanner == InitPlanner /\ [][NextPlanner]_vars

\* runs of main one after the other, as section 5 of the design assumes
Init ==
    /\ clock = 0
    /\ spreadsheet_values = <<>>
    /\ extracted = NotCalled
    /\ InitDriver

Step(p) ==
    \/ StartRun(p) \/ SynCheck(p) \/ SynCredentials(p) \/ SynFetch(p)
    \/ SynOpen(p) \/ SynWrite(p) \/ SynFlush(p) \/ Kill(p) \/ SynRead(p)
    \/ Forecast(p) \/ Render(p) \/ Notify(p) \/ Exit(p)

Next == Tick \/ Step(1)

Spec == Init /\ [][Next]_vars

\* a run is a program that keeps executing: once it can render or send, it does
FairSpec == Spec /\ WF_vars(Render(1)) /\ WF_vars(Notify(1))

\* two runs of main started by two processes at the same hour against the
\* same cache file, each run once: the file is absent, or was written by an
\* earlier run 3 hours ago (stale) or 2 hours ago (fresh)
RaceEntries ==
    {Absent}
        \cup {[exists |-> TRUE, content |-> decode(Body("hours", at)), mtime |-> at] :
                 at \in {0, HourSeconds}}

InitRace ==
    /\ clock = 3 * HourSeconds
    /\ spreadsheet_values = <<>>
    /\ extracted = NotCalled
    /\ cache \in RaceEntries
    /\ pc = [p \in Procs |-> "idle"]
    /\ schedule = [p \in Procs |-> <<>>]
    /\ time_start = [p \in Procs |-> 0]
    /\ time_end = [p \in Procs |-> 0]
    /\ current_time = [p \in Procs |-> 0]
    /\ weather_response = [p \in Procs |-> NoResponse]
    /\ stormglass_data = [p \in Procs |-> NoData]
    /\ weather = [p \in Procs |-> None]
    /\ raised = [p \in Procs |-> "none"]
    /\ delivered = [p \in Procs |-> NotRendered]
    /\ before = [p \in Procs |-> Absent]
    /\ requested = [p \in Procs |-> 0]
    /\ position = [p \in Procs |-> 0]
    /\ previous = NoPrevious
    /\ fetches = IF cache.exists
                 THEN [last |-> cache.mtime, last_ok |-> cache.mtime]
                 ELSE [last |-> -1, last_ok |-> -1]

StepRace(p) ==
    \/ Begin(p) \/ SynCheck(p) \/ SynCredentials(p) \/ SynFetch(p)
    \/ SynOpen(p) \/ SynWrite(p) \/ SynFlush(p) \/ SynRead(p)
    \/ Forecast(p) \/ Render(p) \/ Notify(p)

NextRace == \E p \in Procs : StepRace(p)

SpecRace == InitRace /\ [][NextRace]_vars

----------------------------------------------------------------------------
(* Properties of the forecast cache and the driver (Spec) *)

\* the exceptions Synoptic() and forecast_for_time_range can raise
ForecastExceptions ==
    {"CredentialsError", "ConnectionError", "UnicodeDecodeError",
     "FileNotFoundError", "JSONDecodeError"}

\* the call Synoptic(...) + forecast_for_time_range(...) of process p is over
CallOver(p) ==
    \/ pc[p] \in {"render", "notify", "done"}
    \/ pc[p] = "aborted" /\ raised[p] \in ForecastExceptions

\* the external fetch of p's call was made and failed
FetchFailed(p) ==
    /\ requested[p] = 1
    /\ \/ raised[p] = "ConnectionError"
       \/ /\ weather_response[p] # NoResponse
          /\ weather_response[p].status_code # 200

\* the entry was absent or at least 3 hours old when p's call looked at it
StaleAtCall(p) ==
    \/ ~before[p].exists
    \/ current_time[p] - before[p].mtime >= 10800

\* C1: whenever the external fetch of a call has failed (the request raised
\* or the status was not 200), the cache entry exists exactly if it did
\* before the call and holds the content it held before the call.
C1_FailedFetchLeavesEntry ==
    \A p \in Procs :
        FetchFailed(p) =>
            /\ cache.exists = before[p].exists
            /\ cache.content = before[p].content

C1_Witness ==
    /\ pc[1] = "done"
    /\ FetchFailed(1)
    /\ weather_response[1].status_code = 500
    /\ before[1].exists
    /\ Len(before[1].content) = NChunks

\* C2 (as claimed): when the entry is at least 3 hours old and holds a
\* readable payload, and the refresh fetch raises a network error, the call
\* returns the hours projected from the old entry.
C2_StaleFallbackOnNetworkError ==
    \A p \in Procs :
        ( /\ CallOver(p)
          /\ before[p].exists
          /\ current_time[p] - before[p].mtime >= 10800
          /\ ~IsFault(json_load(before[p].content))
          /\ raised[p] = "ConnectionError" )
        => weather[p] = Returned(forecast_for_time_range(
                            json_load(before[p].content).value,
                            time_start[p], time_end[p]))

\* p's call is the second of two consecutive calls for the same window at
\* the same clock reading, the first of which found the entry absent or stale
SecondCall(p) ==
    /\ pc[p] \in {"render", "notify", "done"}
    /\ previous.valid
    /\ previous.stale
    /\ previous.time = current_time[p]
    /\ previous.time_start = time_start[p]
    /\ previous.time_end = time_end[p]

\* C3 (as claimed): whatever the outcome of the first call's fetch, the two
\* calls make one fetch in total and return the same result.
C3_OneFetchWhateverTheOutcome ==
    \A p \in Procs :
        SecondCall(p) /\ previous.requested = 1 =>
            /\ previous.requested + requested[p] = 1
            /\ weather[p] = previous.weather

\* C3 (amended): when the first call's fetch returned status 200, the two
\* calls make one fetch in total and return the same result.
C3_OneFetchAfterSuccess ==
    \A p \in Procs :
        SecondCall(p) /\ previous.requested = 1 /\ previous.status_code = 200 =>
            /\ previous.requested + requested[p] = 1
            /\ weather[p] = previous.weather

C3_Witness ==
    /\ SecondCall(1)
    /\ pc[1] = "done"
    /\ previous.status_code = 200
    /\ requested[1] = 0
    /\ ~IsFault(weather[1])
    /\ Len(weather[1].value) > 0

\* C4 (as claimed): outside the span in which a process has the file open
\* for writing, an existing entry is a complete payload: never empty,
\* truncated or half-written.
C4_NoPartialWrite ==
    (\A p \in Procs : pc[p] \notin {"write", "flush"}) =>
        (cache.exists => Len(cache.content) = NChunks)

\* p's call is past the point where it fetches or not
PastFetch(p) ==
    pc[p] \in {"open", "write", "flush", "killed", "read", "forecast",
               "render", "notify", "done"}

\* C5 (as claimed): a call contacts the external source if and only if the
\* entry is absent or at least 3 hours old.
C5_FetchIffStale ==
    \A p \in Procs :
        PastFetch(p) => (requested[p] = 1 <=> StaleAtCall(p))

\* C5 (amended): a call contacts the external source if and only if the
\* entry is absent or at least 3 hours old and the credentials file was
\* read; with an entry younger than 3 hours it makes no request.
C5_FetchIffStaleAndCredentials ==
    \A p \in Procs :
        PastFetch(p) =>
            /\ requested[p] = 1 <=>
                  (StaleAtCall(p) /\ raised[p] # "CredentialsError")
            /\ requested[p] \in {0, 1}

C5_Witness ==
    /\ pc[1] = "done"
    /\ before[1].exists
    /\ current_time[1] - before[1].mtime = 10800
    /\ requested[1] = 1

\* C6 (as claimed): hour i of the payload is given time_start =
\* fetchAnchor + i*3600, fetchAnchor being the 'now' of the fetch that
\* produced the payload, and is returned iff that time lies in the window;
\* returned hours keep payload order.
C6_ProjectionAnchoredAtFetch ==
    \A p \in Procs :
        ( /\ pc[p] \in {"render", "notify", "done"}
          /\ ~IsFault(weather[p])
          /\ stormglass_data[p].has_hours )
        => LET hours == stormglass_data[p].hours
               fetchAnchor == hours[1].time
               included == {i \in 0..(Len(hours) - 1) :
                              /\ time_start[p] <= fetchAnchor + i * 3600
                              /\ fetchAnchor + i * 3600 < time_end[p]}
               result == weather[p].value
           IN /\ Len(result) = Cardinality(included)
              /\ \A j \in 1..Len(result) :
                    LET i == CHOOSE x \in included :
                               Cardinality({y \in included : y < x}) = j - 1
                    IN /\ result[j].time_start = fetchAnchor + i * 3600
                       /\ result[j].time = hours[i + 1].time

\* C10: a failure inside the forecast cache never aborts a run that has a
\* schedule: the run is rendering, sending or done, with weather absent and
\* the notification formed from the schedule without weather; and such a
\* run goes on to send that notification.
C10_Degraded(p) ==
    /\ pc[p] \in {"render", "notify", "done"}
    /\ schedule[p] # <<>>
    /\ weather[p] = None
    /\ pc[p] \in {"notify", "done"} =>
          delivered[p].text = render(time_start[p], schedule[p], None)
    /\ pc[p] = "done" => delivered[p].sent

C10_DegradeWithoutWeather ==
    /\ [](\A p \in Procs : raised[p] \in ForecastExceptions => C10_Degraded(p))
    /\ (raised[1] \in ForecastExceptions)
          ~> (pc[1] = "done" /\ raised[1] \in ForecastExceptions
                /\ delivered[1].sent /\ delivered[1].text.weather = None)

C10_Witness ==
    /\ pc[1] = "done"
    /\ raised[1] = "FileNotFoundError"
    /\ delivered[1].sent
    /\ delivered[1].text.weather = None
    /\ delivered[1].text.schedule # <<>>

----------------------------------------------------------------------------
(* Properties of the extraction (SpecPlanner) *)

windowStart == timestamp_range_start(clock, DAYS_OFFSET)
windowEnd == timestamp_range_end(clock, DAYS_OFFSET)

\* a pure decimal-digit string
DecimalString(cell) ==
    /\ Len(cell) > 0
    /\ \A i \in 1..Len(cell) : cell[i] \in DecimalChars

\* the rows (1-based positions) that qualify as shift rows
QualifyingRows ==
    {r \in 1..Len(spreadsheet_values) :
        /\ Len(spreadsheet_values[r]) >= 1
        /\ DecimalString(spreadsheet_values[r][1])
        /\ windowStart <= int(spreadsheet_values[r][1])
        /\ int(spreadsheet_values[r][1]) < windowEnd}

\* the n-th smallest number of a set
NthOf(set, n) == CHOOSE x \in set : Cardinality({y \in set : y < x}) = n - 1

\* the row the k-th shift of the schedule is built from
RowOfShift(k) == spreadsheet_values[NthOf(QualifyingRows, k)]

\* C7: a returned Schedule has one Shift per qualifying row, in row order,
\* each with the row's column 0 as time_start, inside the window; an empty
\* sheet gives an empty Schedule and no fault.
C7_ScheduleIsQualifyingRows ==
    /\ ~IsFault(extracted) =>
          /\ Len(extracted.value) = Cardinality(QualifyingRows)
          /\ \A k \in 1..Len(extracted.value) :
                /\ extracted.value[k].time_start = int(RowOfShift(k)[1])
                /\ windowStart <= extracted.value[k].time_start
                /\ extracted.value[k].time_start < windowEnd
    /\ spreadsheet_values = <<>> /\ extracted # NotCalled =>
          extracted = Returned(<<>>)

\* two shifts out of chronological order, a skipped row, nobody assigned
C7_Witness ==
    /\ ~IsFault(extracted)
    /\ Len(extracted.value) = 2
    /\ extracted.value[1].time_start > extracted.value[2].time_start
    /\ extracted.value[1].people = <<>>
    /\ Cardinality(QualifyingRows) < Len(spreadsheet_values) - 2

\* the 0-based columns of a row that the claim makes eligible and assigned
AssignedColumns(row) ==
    {i \in 2..(Len(row) - 2) : row[i + 1] = <<"0">>}

\* C8: the people of the Shift built from row r are the Persons of the
\* columns i with 2 <= i <= len(r)-2 and r[i] = "0", in ascending order.
C8_PeopleAreZeroColumns ==
    ~IsFault(extracted) =>
        \A k \in 1..Len(extracted.value) :
            LET row == RowOfShift(k)
                people == extracted.value[k].people
            IN /\ Len(people) = Cardinality(AssignedColumns(row))
               /\ \A j \in 1..Len(people) :
                     LET i == NthOf(AssignedColumns(row), j) IN
                     people[j] =
                        [name |-> spreadsheet_values[1][i + 1],
                         telegram_handler |-> spreadsheet_values[2][i + 1]]

\* columns 1 and last hold "0", column 2 holds "0", column 3 does not
C8_Witness ==
    /\ ~IsFault(extracted)
    /\ Len(extracted.value) = 1
    /\ Len(RowOfShift(1)) = 5
    /\ RowOfShift(1)[2] = <<"0">>
    /\ RowOfShift(1)[3] = <<"0">>
    /\ RowOfShift(1)[4] = <<"0", "0">>
    /\ RowOfShift(1)[5] = <<"0">>
    /\ extracted.value[1].people =
          << [name |-> <<"A">>, telegram_handler |-> <<"a">>] >>

\* C9: every Shift ends 7200 seconds after its start, the start being the
\* value of the row's column 0.
C9_ShiftLastsTwoHours ==
    ~IsFault(extracted) =>
        \A k \in 1..Len(extracted.value) :
            /\ extracted.value[k].time_start = int(RowOfShift(k)[1])
            /\ extracted.value[k].time_end = extracted.value[k].time_start + 7200

C9_Witness ==
    /\ ~IsFault(extracted)
    /\ Len(extracted.value) = 1
    /\ Len(RowOfShift(1)) = 4
    /\ RowOfShift(1)[2] = <<"1">>
    /\ extracted.value[1].time_start = 165599
    /\ extracted.value[1].time_end = 172799

\* the qualifying rows with an assigned column that row 0 or row 1 lacks
MalformedRows ==
    {r \in QualifyingRows :
        \E i \in AssignedColumns(spreadsheet_values[r]) :
            \/ Len(spreadsheet_values) < 2
            \/ i >= Len(spreadsheet_values[1])
            \/ i >= Len(spreadsheet_values[2])}

\* C12: when a qualifying row assigns a column that is no valid index into
\* header row 0 or header row 1, the extraction call fails as a whole: it
\* returns no Schedule, partial or with a substituted Person.
C12_MalformedRowFails ==
    extracted # NotCalled /\ MalformedRows # {} =>
        /\ IsFault(extracted)
        /\ extracted.value = <<>>

\* short header rows; the row assigns column 2, which they have, and
\* column 3, which they lack
C12_Witness ==
    /\ extracted = IndexError
    /\ Len(spreadsheet_values) = 3
    /\ Len(spreadsheet_values[1]) = 3
    /\ MalformedRows = {3}
    /\ AssignedColumns(spreadsheet_values[3]) = {2, 3}

----------------------------------------------------------------------------
(* Further properties of the driver and the forecast cache *)

\* C11 (as claimed): a run whose Schedule is empty never faults on the
\* minimum or maximum of an empty sequence of shifts.
C11_EmptyScheduleDetected ==
    \A p \in Procs :
        ~(pc[p] = "aborted" /\ raised[p] = EmptySequenceError)

\* the entry holds no complete JSON text
NotJsonText(entry) ==
    \/ ~entry.exists
    \/ Len(entry.content) < NChunks
    \/ \E i \in 1..Len(entry.content) :
          \/ entry.content[i].kind \notin {"hours", "nohours", "error"}
          \/ entry.content[i] # entry.content[1]

\* C13: when the entry is absent and the fetch fails, or when the entry
\* cannot be read or parsed after the fresh/stale branch, the call fails as
\* a whole: the driver gets an exception and no forecast sequence, empty or
\* partial.
C13_HardFailureWithoutEntry ==
    \A p \in Procs :
        ( /\ CallOver(p)
          /\ \/ ~before[p].exists /\ FetchFailed(p)
             \/ NotJsonText(cache) )
        => /\ weather[p] = None
           /\ raised[p] \in ForecastExceptions

C13_Witness ==
    /\ pc[1] = "done"
    /\ ~before[1].exists
    /\ weather_response[1].status_code = 500
    /\ raised[1] = "FileNotFoundError"
    /\ weather[1] = None

\* C14 (as claimed): a call whose window is disjoint from the range
\* [fetchNow, fetchNow + 24h) the cached payload was fetched for returns
\* no hours.
C14_DisjointWindowGivesNoHours ==
    \A p \in Procs :
        ( /\ pc[p] \in {"render", "notify", "done"}
          /\ ~IsFault(weather[p])
          /\ stormglass_data[p].has_hours
          /\ LET fetchNow == stormglass_data[p].hours[1].time IN
             \/ time_start[p] >= fetchNow + 86400
             \/ time_end[p] <= fetchNow )
        => weather[p].value = <<>>

\* C18: when the payload parsed and holds no 'hours' field, the call
\* returns an empty sequence, whatever the window, and does not fail.
C18_NoHoursGivesEmpty ==
    \A p \in Procs :
        ( /\ pc[p] \in {"render", "notify", "done"}
          /\ raised[p] \notin ForecastExceptions
          /\ ~stormglass_data[p].has_hours )
        => /\ weather[p] = Returned(<<>>)
           /\ raised[p] = "none"

C18_Witness ==
    /\ pc[1] = "done"
    /\ cache.exists
    /\ cache.content = decode(Body("nohours", cache.mtime))
    /\ raised[1] = "none"
    /\ weather[1] = Returned(<<>>)
    /\ time_end[1] - time_start[1] = 14400

\* a step that calls requests.get
FetchStep == \E p \in Procs : requested'[p] = requested[p] + 1

\* C15 (as claimed): any two external fetch attempts are at least 3 hours
\* apart, whatever their outcomes.
C15_FetchesThreeHoursApart ==
    [][FetchStep => fetches.last = -1 \/ clock - fetches.last >= 10800]_vars

\* C15 (amended): every external fetch attempt comes at least 3 hours after
\* the latest earlier attempt that was answered with status 200.
C15_FetchesThreeHoursAfterSuccess ==
    [][FetchStep => fetches.last_ok = -1 \/ clock - fetches.last_ok >= 10800]_vars

C15_Witness ==
    /\ pc[1] = "done"
    /\ requested[1] = 1
    /\ previous.valid
    /\ previous.requested = 1
    /\ previous.status_code = 200
    /\ current_time[1] - previous.time >= 10800
    /\ fetches.last = current_time[1]

\* C16 (as claimed): after a call whose fetch returned status 200, the
\* entry's content is that response body and its last-write time is the
\* call's now.
C16_SuccessfulRefreshStoresBody ==
    \A p \in Procs :
        ( /\ CallOver(p)
          /\ requested[p] = 1
          /\ weather_response[p].status_code = 200 )
        => /\ cache.exists
           /\ cache.content = decode(weather_response[p].content)
           /\ cache.mtime = current_time[p]

\* C19: a call that finds the entry fresh leaves the entry as it found it;
\* a step changes the entry only if it belongs to a call whose fetch was
\* answered with status 200 (the projection step never does); and, once
\* such a call has opened the file, the entry's last-write time is the time
\* of the last fetch answered 200.
C19_ReadsDoNotRefresh ==
    /\ [](\A p \in Procs :
            PastFetch(p) /\ ~StaleAtCall(p) => cache = before[p])
    /\ [](cache.exists /\ (\A p \in Procs : pc[p] # "open") =>
            cache.mtime = fetches.last_ok)
    /\ [][cache' # cache =>
            \E p \in Procs :
                /\ pc[p] \in {"open", "write", "flush"}
                /\ requested[p] = 1
                /\ weather_response[p].status_code = 200]_vars

C19_Witness ==
    /\ pc[1] = "done"
    /\ requested[1] = 0
    /\ ~IsFault(weather[1])
    /\ weather[1].value # <<>>
    /\ previous.valid
    /\ previous.requested = 0
    /\ previous.time = cache.mtime + 3600
    /\ current_time[1] = cache.mtime + 7200
    /\ cache = before[1]

----------------------------------------------------------------------------
(* Two concurrent runs (SpecRace) *)

\* another process has the file open for writing
OpenElsewhere(p) ==
    \E q \in Procs \ {p} : pc[q] \in {"write", "flush"}

\* C17: nothing keeps two concurrent calls apart. Two calls that both find
\* the entry absent or stale (and read their credentials) both fetch; and a
\* call that reads the file while another process has it open for writing,
\* before that process's text is all there, takes what the file holds at
\* that moment: nothing, or a part, which fails to parse.
C17_ConcurrentRunsRace ==
    /\ [](\A p, q \in Procs :
            ( /\ p # q
              /\ PastFetch(p) /\ StaleAtCall(p) /\ raised[p] # "CredentialsError"
              /\ PastFetch(q) /\ StaleAtCall(q) /\ raised[q] # "CredentialsError" )
            => requested[p] = 1 /\ requested[q] = 1)
    /\ [][\A p \in Procs :
            ( /\ pc[p] = "read" /\ pc'[p] # "read"
              /\ OpenElsewhere(p)
              /\ Len(cache.content) < NChunks )
            => /\ raised'[p] = "JSONDecodeError"
               /\ weather'[p] = None]_vars

\* both calls saw the same stale entry and both fetched; process 1 wrote its
\* payload, process 2 truncated the file, and process 1 read it before
\* process 2's text was all there
C17_Witness ==
    /\ before[1].exists
    /\ before[2] = before[1]
    /\ requested[1] = 1
    /\ requested[2] = 1
    /\ weather_response[1] = Response(200, Body("hours", clock))
    /\ weather_response[2] = Response(200, Body("hours", clock))
    /\ pc[2] \in {"write", "flush"}
    /\ Len(cache.content) < NChunks
    /\ pc[1] = "render"
    /\ raised[1] = "JSONDecodeError"

====
